---- MODULE Spec2Model ----
(***************************************************************************)
(* Model of the two scripts of Lab 05 (Camera Calibration):                *)
(*   lab5.0_gen_chessboard.py             (script = "chessboard")          *)
(*   lab5.2_trf_interactive_student_copy.py (script = "visualizer")        *)
(*                                                                         *)
(* Units.  Python floats are kept exact as scaled integers:                *)
(*   scale            in hundredths        (scale_pos / 100.0)             *)
(*   center           in half pixels       (cols / 2, rows / 2)            *)
(*   transform_matrix in 1/200             (so the identity is 200,0,0)    *)
(* cos and sin are tabulated at the multiples of 90 degrees.                *)
(***************************************************************************)
EXTENDS Integers, Sequences, FiniteSets, TLC

VARIABLES
    script, pc, stdout,
    \* lab5.0_gen_chessboard.py
    r, c, rects, shape, png_written,
    \* lab5.2_trf_interactive_student_copy.py
    file, existed, download, wrote, image, window, pos, center, mode,
    angle_pos, tx_pos, ty_pos, scale_pos, angle, tx, ty, scale, mode_text,
    transform_matrix, key, frames

cbVars == <<r, c, rects, shape, png_written>>
acqVars == <<file, existed, download, wrote, image>>
uiVars == <<window, pos>>
loopVars == <<center, mode, angle_pos, tx_pos, ty_pos, scale_pos, angle, tx, ty,
              scale, mode_text, transform_matrix, key, frames>>
vars == <<script, pc, stdout, cbVars, acqVars, uiVars, loopVars>>

\* ---------------------------------------------------------------- bounds
\* Number of frames of main_loop that are explored.
MaxFrames == 3

\* ------------------------------------------------- lab5.0_gen_chessboard
A4_WIDTH_PX == 2480
A4_HEIGHT_PX == 3508
BOARD_COLS == 10
BOARD_ROWS == 7
SQUARE_SIZE_PX == 300
WHITE == 255
BLACK == 0

board_w == BOARD_COLS * SQUARE_SIZE_PX
board_h == BOARD_ROWS * SQUARE_SIZE_PX
start_x == (A4_HEIGHT_PX - board_w) \div 2
start_y == (A4_WIDTH_PX - board_h) \div 2

\* The two corner points handed to cv2.rectangle for square (row, col).
SquareRect(row, col) ==
    LET top_left_x == start_x + (col * SQUARE_SIZE_PX)
        top_left_y == start_y + (row * SQUARE_SIZE_PX)
        bottom_right_x == top_left_x + SQUARE_SIZE_PX
        bottom_right_y == top_left_y + SQUARE_SIZE_PX
    IN  <<top_left_x, top_left_y, bottom_right_x, bottom_right_y>>

\* cv2.rectangle(img, pt1, pt2, color, -1) fills every pixel of the
\* rectangle spanned by pt1 and pt2, both corner points included.
InFilledRect(x, y, rect) ==
    /\ rect[1] <= x /\ x <= rect[3]
    /\ rect[2] <= y /\ y <= rect[4]

\* Value of pixel (x, y) of the landscape canvas: np.full(..., 255) with the
\* filled rectangles drawn so far in colour 0.
CanvasPixel(x, y) ==
    IF \E rect \in rects : InFilledRect(x, y, rect) THEN BLACK ELSE WHITE

\* Outcomes of cv2.imwrite: returns True, returns False (nothing written),
\* or raises.
ImwriteOutcomes == {"ok", "false", "raise"}

DrawSquare ==
    /\ script = "chessboard" /\ pc = "draw"
    /\ rects' = IF (r + c) % 2 = 0 THEN rects \cup {SquareRect(r, c)} ELSE rects
    /\ IF c + 1 < BOARD_COLS
         THEN c' = c + 1 /\ r' = r /\ pc' = pc
         ELSE IF r + 1 < BOARD_ROWS
                THEN c' = 0 /\ r' = r + 1 /\ pc' = pc
                ELSE c' = c /\ r' = r /\ pc' = "rotate"
    /\ UNCHANGED <<script, stdout, shape, png_written, acqVars, uiVars, loopVars>>

\* cv2.rotate(canvas, 2): the shape (rows, cols) is transposed.
Rotate ==
    /\ script = "chessboard" /\ pc = "rotate"
    /\ shape' = <<shape[2], shape[1]>>
    /\ pc' = "save"
    /\ UNCHANGED <<script, stdout, r, c, rects, png_written, acqVars, uiVars, loopVars>>

SaveFile(outcome) ==
    /\ script = "chessboard" /\ pc = "save"
    /\ png_written' = (outcome = "ok")
    /\ stdout' = IF outcome = "raise"
                   THEN stdout \o << <<"Error saving file">> >>
                   ELSE stdout \o << <<"Successfully generated">>,
                                     <<"Image dimensions", shape[2], shape[1]>> >>
    /\ pc' = "done"
    /\ UNCHANGED <<script, r, c, rects, shape, acqVars, uiVars, loopVars>>

\* --------------------------------- lab5.2_trf_interactive_student_copy
TrackbarNames == {"Angle", "Translate X", "Translate Y", "Scale"}

\* (name, min_val, max_val, default_pos)
TRACKBARS_CONFIG ==
    [n \in TrackbarNames |->
        CASE n = "Angle"       -> <<"Angle", -180, 180, 180>>
          [] n = "Translate X" -> <<"Translate X", -150, 150, 150>>
          [] n = "Translate Y" -> <<"Translate Y", -100, 100, 100>>
          [] n = "Scale"       -> <<"Scale", 20, 200, 100>>]

ESC == 27
ordM == 109

NoneImage == [cols |-> 0, rows |-> 0, channels |-> 0, origin |-> "none"]
\* np.zeros((400, 600, 3)) with the caption, after imwrite / imread.
PlaceholderImage_Mut == [cols |-> 400, rows |-> 600, channels |-> 3, origin |-> "placeholder"]
PlaceholderImage == [cols |-> 600, rows |-> 400, channels |-> 3, origin |-> "placeholder"]
\* What cv2.imread gives for a decodable file that was on disk or downloaded.
FileImage == [cols |-> 5, rows |-> 4, channels |-> 3, origin |-> "file"]

\* States of transformation_sample.jpg on disk.
FileStates == {"absent", "image", "garbage", "placeholder"}

\* cv2.imread(filename): None unless the file decodes.
Imread(f) ==
    CASE f = "image" -> FileImage
      [] f = "placeholder" -> PlaceholderImage
      [] OTHER -> NoneImage

\* Outcomes of download_image: the body is written and decodes ("image"),
\* is written and does not decode ("garbage"), a RequestException before
\* anything is written ("neterr"), a RequestException in iter_content after
\* part of the body was written, leaving a file that does not decode
\* ("neterr_garbage") or a truncated file that still decodes
\* ("neterr_truncated"), or an exception that is not a RequestException,
\* e.g. OSError from open ("oserror").
DownloadOutcomes ==
    {"image", "garbage", "neterr", "neterr_garbage", "neterr_truncated", "oserror"}

DownloadFile(f, d) ==
    CASE d = "image" -> "image"
      [] d = "garbage" -> "garbage"
      [] d = "neterr_garbage" -> "garbage"
      [] d = "neterr_truncated" -> "image"
      [] OTHER -> f

DownloadLog(d) ==
    CASE d \in {"image", "garbage"} ->
            << <<"Attempting to download">>, <<"Image downloaded successfully">> >>
      [] d \in {"neterr", "neterr_garbage", "neterr_truncated"} ->
            << <<"Attempting to download">>, <<"Could not download image">> >>
      [] OTHER -> << <<"Attempting to download">> >>

\* get_image(IMAGE_FILENAME), called from main.
GetImage(d, w) ==
    /\ script = "visualizer" /\ pc = "start"
    /\ existed' = (file # "absent")
    /\ download' = IF file = "absent" THEN d ELSE "skipped"
    /\ LET f1 == IF file = "absent" THEN DownloadFile(file, d) ELSE file
           log1 == IF file = "absent" THEN DownloadLog(d) ELSE <<>>
           first == Imread(f1)
           f2 == IF w = "ok" THEN "placeholder" ELSE f1
       IN  IF file = "absent" /\ d = "oserror"
             THEN /\ pc' = "crashed"
                  /\ stdout' = stdout \o log1
                  /\ UNCHANGED <<file, image, wrote>>
             ELSE IF first # NoneImage
               THEN /\ image' = first
                    /\ file' = f1
                    /\ wrote' = "skipped"
                    /\ stdout' = stdout \o log1
                    /\ pc' = "got"
               ELSE /\ wrote' = w
                    /\ file' = f2
                    /\ stdout' = stdout \o log1 \o << <<"Failed to load">> >>
                    /\ IF w = "raise"
                         THEN pc' = "crashed" /\ image' = image
                         ELSE pc' = "got" /\ image' = Imread(f2)
    /\ UNCHANGED <<script, cbVars, uiVars, loopVars>>

\* main, lines 131-133.
ExitNoImage ==
    /\ script = "visualizer" /\ pc = "got" /\ image = NoneImage
    /\ stdout' = stdout \o << <<"Could not load or create a sample image. Exiting.">> >>
    /\ pc' = "returned"
    /\ UNCHANGED <<script, cbVars, acqVars, uiVars, loopVars>>

\* Largest position of a trackbar as registered by setup_ui.
RangeMax(n) ==
    LET min_val == TRACKBARS_CONFIG[n][2]
        max_val == TRACKBARS_CONFIG[n][3]
    IN  IF min_val = 0 THEN max_val ELSE max_val - min_val

SetupUI_Mut ==
    /\ script = "visualizer" /\ pc = "got"
    /\ window' = TRUE
    /\ pos' = [n \in TrackbarNames |-> TRACKBARS_CONFIG[n][4]]
    /\ pc' = "ui"
    /\ UNCHANGED <<script, stdout, cbVars, acqVars, loopVars>>

SetupUI ==
    /\ script = "visualizer" /\ pc = "got" /\ image # NoneImage
    /\ window' = TRUE
    /\ pos' = [n \in TrackbarNames |-> TRACKBARS_CONFIG[n][4]]
    /\ pc' = "ui"
    /\ UNCHANGED <<script, stdout, cbVars, acqVars, loopVars>>

\* main_loop, lines 71-77.
EnterMainLoop ==
    /\ script = "visualizer" /\ pc = "ui"
    /\ center' = <<image.cols, image.rows>>
    /\ mode' = 0
    /\ stdout' = stdout \o << <<"Adjust sliders">> >>
    /\ pc' = "loop"
    /\ UNCHANGED <<script, cbVars, acqVars, uiVars, angle_pos, tx_pos, ty_pos,
                   scale_pos, angle, tx, ty, scale, mode_text, transform_matrix,
                   key, frames>>

\* Positions of a trackbar that are explored: both ends and the default.
SliderPositions(n) == {0, TRACKBARS_CONFIG[n][4], RangeMax(n)}

\* The user drags a trackbar; the GUI handles it inside cv2.waitKey, so the
\* first frame always reads the default positions.
MoveSlider(n, p) ==
    /\ script = "visualizer" /\ pc = "loop" /\ window /\ frames >= 1
    /\ p # pos[n]
    /\ pos' = [pos EXCEPT ![n] = p]
    /\ UNCHANGED <<script, pc, stdout, cbVars, acqVars, window, loopVars>>

\* cos and sin of an angle in degrees, at the multiples of 90.  At 0, the
\* angle of the default position, the floating-point values are exactly 1
\* and 0; elsewhere they are the ideal values, off by at most 2e-16.
Cos(a) == CASE a % 360 = 0 -> 1 [] a % 360 = 180 -> -1 [] a % 180 = 90 -> 0
Sin(a) == CASE a % 180 = 0 -> 0 [] a % 360 = 90 -> 1 [] a % 360 = 270 -> -1

SliderValue_Mut(p, min_val) == p
SliderValue(p, min_val) == p + min_val

ScaleFor_Mut(m, sp) == sp
ScaleFor(m, sp) == IF m = 0 THEN 100 ELSE sp

ModeText(m) == IF m = 0 THEN "Rigid" ELSE "Similarity"

\* cv2.getRotationMatrix2D(center, angle, scale), in 1/200.
GetRotationMatrix2D(ctr, a, s) ==
    LET alpha == s * Cos(a)
        beta == s * Sin(a)
    IN  << <<2 * alpha, 2 * beta, (100 - alpha) * ctr[1] - beta * ctr[2]>>,
           <<-2 * beta, 2 * alpha, beta * ctr[1] + (100 - alpha) * ctr[2]>> >>

TransformMatrix(ctr, a, s, x, y) ==
    LET R == GetRotationMatrix2D(ctr, a, s)
    IN  << <<R[1][1], R[1][2], R[1][3] + 200 * x>>,
           <<R[2][1], R[2][2], R[2][3] + 200 * y>> >>

BORDER == <<"border">>
INTERP == <<"interpolated">>

\* cv2.warpAffine(image, M, (cols, rows), BORDER_CONSTANT): which pixel of
\* the source the output pixel (x, y) shows.  The matrix is inverted (an
\* all-zero inverse when the determinant is 0) and applied to (x, y).
WarpAffine(img, M, x, y) ==
    LET D == M[1][1] * M[2][2] - M[1][2] * M[2][1]
        dx == 200 * x - M[1][3]
        dy == 200 * y - M[2][3]
        nx == M[2][2] * dx - M[1][2] * dy
        ny == M[1][1] * dy - M[2][1] * dx
    IN  IF D = 0 THEN <<0, 0>>
        ELSE IF nx % D # 0 \/ ny % D # 0 THEN INTERP
        ELSE LET sx == nx \div D
                 sy == ny \div D
             IN  IF sx >= 0 /\ sx < img.cols /\ sy >= 0 /\ sy < img.rows
                   THEN <<sx, sy>> ELSE BORDER

\* Values cv2.waitKey(20) may return: -1 for no key, plain key codes, and a
\* key code with modifier bits above the low byte.
RawKeys == {-1, 27, 109, 113, 1048685}

IsExitKey_Mut(k) == k = 113
IsExitKey(k) == k = ESC

NextMode_Mut(m, k) == IF k # 255 THEN 1 - m ELSE m
NextMode(m, k) == IF k = ordM THEN 1 - m ELSE m

\* One iteration of the while loop of main_loop.
Frame(raw) ==
    /\ script = "visualizer" /\ pc = "loop" /\ frames < MaxFrames
    /\ angle_pos' = pos["Angle"]
    /\ tx_pos' = pos["Translate X"]
    /\ ty_pos' = pos["Translate Y"]
    /\ scale_pos' = pos["Scale"]
    /\ angle' = SliderValue(angle_pos', TRACKBARS_CONFIG["Angle"][2])
    /\ tx' = SliderValue(tx_pos', TRACKBARS_CONFIG["Translate X"][2])
    /\ ty' = SliderValue(ty_pos', TRACKBARS_CONFIG["Translate Y"][2])
    /\ scale' = ScaleFor(mode, scale_pos')
    /\ mode_text' = ModeText(mode)
    /\ transform_matrix' = TransformMatrix(center, angle', scale', tx', ty')
    /\ frames' = frames + 1
    /\ key' = raw % 256
    /\ IF IsExitKey(key')
         THEN pc' = "teardown" /\ mode' = mode
         ELSE pc' = pc /\ mode' = NextMode(mode, key')
    /\ UNCHANGED <<script, stdout, cbVars, acqVars, uiVars, center>>

\* main, lines 138-139.
Teardown ==
    /\ script = "visualizer" /\ pc = "teardown"
    /\ window' = FALSE
    /\ stdout' = stdout \o << <<"Application closed.">> >>
    /\ pc' = "closed"
    /\ UNCHANGED <<script, cbVars, acqVars, pos, loopVars>>

\* ------------------------------------------------------------ behaviour
Init ==
    /\ script \in {"chessboard", "visualizer"}
    /\ pc = IF script = "chessboard" THEN "draw" ELSE "start"
    /\ stdout = <<>>
    /\ r = 0 /\ c = 0 /\ rects = {}
    /\ shape = <<A4_WIDTH_PX, A4_HEIGHT_PX>>
    /\ png_written = FALSE
    /\ file \in IF script = "visualizer" THEN {"absent", "image", "garbage"} ELSE {"absent"}
    /\ existed = FALSE /\ download = "skipped" /\ wrote = "skipped"
    /\ image = NoneImage
    /\ window = FALSE
    /\ pos = [n \in TrackbarNames |-> 0]
    /\ center = <<0, 0>>
    /\ mode = 0
    /\ angle_pos = 0 /\ tx_pos = 0 /\ ty_pos = 0 /\ scale_pos = 0
    /\ angle = 0 /\ tx = 0 /\ ty = 0 /\ scale = 0
    /\ mode_text = ""
    /\ transform_matrix = <<>>
    /\ key = -1
    /\ frames = 0

Next ==
    \/ DrawSquare
    \/ Rotate
    \/ \E o \in ImwriteOutcomes : SaveFile(o)
    \/ \E d \in DownloadOutcomes, w \in ImwriteOutcomes : GetImage(d, w)
    \/ ExitNoImage
    \/ SetupUI
    \/ EnterMainLoop
    \/ \E n \in TrackbarNames : \E p \in SliderPositions(n) : MoveSlider(n, p)
    \/ \E raw \in RawKeys : Frame(raw)
    \/ Teardown

Spec == Init /\ [][Next]_vars

\* main runs on after the loop: the teardown is always taken.
FairSpec == Spec /\ WF_vars(Teardown)

\* --------------------------------------------------------------- claims
Printed(m) == \E i \in 1..Len(stdout) : stdout[i] = m

\* C1 (as stated): once the board is painted, every pixel of the 300x300
\* cell of square (row, col) is black when row + col is even and white
\* otherwise, 35 cells are black, and nothing outside the 3000x2100 board
\* is painted.
C1_Claim ==
    (script = "chessboard" /\ pc = "rotate") =>
        /\ Cardinality(rects) = 35
        /\ \A row \in 0..(BOARD_ROWS - 1), col \in 0..(BOARD_COLS - 1) :
             \A dx \in 0..(SQUARE_SIZE_PX - 1), dy \in 0..(SQUARE_SIZE_PX - 1) :
                CanvasPixel(start_x + col * SQUARE_SIZE_PX + dx,
                            start_y + row * SQUARE_SIZE_PX + dy)
                  = IF (row + col) % 2 = 0 THEN BLACK ELSE WHITE
        /\ \A rect \in rects :
             /\ start_x <= rect[1] /\ rect[3] <= start_x + board_w - 1
             /\ start_y <= rect[2] /\ rect[4] <= start_y + board_h - 1

\* C2 (as stated): in every frame the logical values are position - 180 in
\* [-180,180], position - 150 in [-150,150], position - 100 in [-100,100],
\* and, where the Scale slider is used, position / 100.0 in [0.20, 2.00].
C2_Claim ==
    frames > 0 =>
        /\ angle = angle_pos - 180 /\ angle \in -180..180
        /\ tx = tx_pos - 150 /\ tx \in -150..150
        /\ ty = ty_pos - 100 /\ ty \in -100..100
        /\ mode_text = "Similarity" => (scale = scale_pos /\ scale \in 20..200)

\* C3 (as stated): the scale handed to the transform matrix is never 0; it
\* is 1.0 in Rigid mode and position / 100.0 in Similarity mode.
C3_Claim ==
    frames > 0 =>
        /\ scale # 0
        /\ mode_text = "Rigid" => scale = 100
        /\ mode_text = "Similarity" => scale = scale_pos

\* C4: in every frame rendered in Rigid mode the scale used for the
\* transform matrix is exactly 1.0, wherever the Scale slider stands.
C4_RigidScaleIsOne ==
    (frames > 0 /\ mode_text = "Rigid") => scale = 100

C4_Witness ==
    frames >= 2 /\ mode_text = "Rigid" /\ scale_pos = 0 /\ scale = 100

\* C5: the mode is Rigid when the loop is entered; a frame whose polled key
\* is 'm' flips it to the other mode, a frame with any other key or no key
\* leaves it as it is, and nothing else changes it.
C5_Step ==
    /\ mode' \in {0, 1}
    /\ (pc = "ui" /\ pc' = "loop") => mode' = 0
    /\ (frames' # frames /\ key' = ordM) => mode' = 1 - mode
    /\ (frames' # frames /\ key' # ordM) => mode' = mode
    /\ (frames' = frames /\ pc = "loop") => mode' = mode

C5_ModeToggle == [][C5_Step]_vars

\* A second 'm' has brought the mode back to Rigid.
C5_Witness ==
    frames >= 2 /\ key = ordM /\ mode = 0 /\ mode_text = "Similarity"

\* C6 (as stated): with the file absent and the download failing with a
\* network error, get_image does not abort and returns the non-null 600x400
\* 3-channel placeholder, written to the filename and reloaded.
C6_Claim ==
    (script = "visualizer" /\ pc # "start" /\ ~existed
        /\ download \in {"neterr", "neterr_garbage", "neterr_truncated"}) =>
        /\ pc # "crashed"
        /\ wrote = "ok" /\ file = "placeholder"
        /\ image.cols = 600 /\ image.rows = 400 /\ image.channels = 3
        /\ image.origin = "placeholder"

\* C6 (amended): with the file absent and the download failing with a
\* network error that leaves no decodable file, get_image synthesizes the
\* placeholder and writes it; when the write succeeds the non-null 600x400
\* 3-channel placeholder reloaded from disk is returned, when the write
\* returns failure None is returned, and an exception raised by the write
\* propagates.
C6_PlaceholderOnNetworkError ==
    (script = "visualizer" /\ pc # "start" /\ ~existed
        /\ download \in {"neterr", "neterr_garbage"}) =>
        /\ wrote \in ImwriteOutcomes
        /\ wrote = "ok" =>
             /\ pc # "crashed" /\ file = "placeholder"
             /\ image.cols = 600 /\ image.rows = 400 /\ image.channels = 3
             /\ image.origin = "placeholder"
        /\ wrote = "false" => (pc # "crashed" /\ image = NoneImage)
        /\ wrote = "raise" => pc = "crashed"

C6_Witness ==
    /\ pc = "got" /\ ~existed /\ download = "neterr" /\ wrote = "ok"
    /\ image.cols = 600 /\ image.rows = 400 /\ file = "placeholder"

\* C7 (as stated): success is reported only when the PNG was written, and
\* whenever the write fails the error is reported instead of success.
C7_Claim ==
    (script = "chessboard" /\ pc = "done") =>
        /\ Printed(<<"Successfully generated">>) => png_written
        /\ ~png_written => /\ Printed(<<"Error saving file">>)
                           /\ ~Printed(<<"Successfully generated">>)

\* C8: get_image returns None only after the placeholder write failed and
\* the reload gave nothing; main then prints its message and returns, with
\* no window, no sliders and no frame, and without raising.
C8_NoneIsFatal ==
    /\ (script = "visualizer" /\ pc \notin {"start", "crashed"} /\ image = NoneImage) =>
          /\ wrote = "false" /\ file \in {"absent", "garbage"}
          /\ pc \in {"got", "returned"}
          /\ ~window /\ frames = 0
          /\ pos = [n \in TrackbarNames |-> 0]
          /\ ~Printed(<<"Adjust sliders">>)
    /\ pc = "returned" =>
          /\ image = NoneImage
          /\ stdout[Len(stdout)] = <<"Could not load or create a sample image. Exiting.">>

C8_Witness ==
    pc = "returned" /\ image = NoneImage /\ wrote = "false" /\ ~window /\ frames = 0

Identity == << <<200, 0, 0>>, <<0, 200, 0>> >>

\* The output pixels at which the warp is compared with the input: the
\* corners, the edge midpoints and the middle (an affine map that fixes
\* three points not on a line fixes every point).
ProbePixels(img) ==
    {0, img.cols \div 2, img.cols - 1} \X {0, img.rows \div 2, img.rows - 1}

\* C9: a frame that reads all four sliders at their default positions
\* derives angle 0, tx 0, ty 0 and scale 1.0 in either mode, builds the
\* identity matrix, and its warped output shows the input pixel for pixel.
C9_DefaultsAreIdentity ==
    (frames > 0 /\ angle_pos = 180 /\ tx_pos = 150 /\ ty_pos = 100 /\ scale_pos = 100) =>
        /\ angle = 0 /\ tx = 0 /\ ty = 0 /\ scale = 100
        /\ transform_matrix = Identity
        /\ \A p \in ProbePixels(image) :
              WarpAffine(image, transform_matrix, p[1], p[2]) = p

C9_Witness ==
    /\ frames >= 2 /\ mode_text = "Similarity"
    /\ angle_pos = 180 /\ tx_pos = 150 /\ ty_pos = 100 /\ scale_pos = 100
    /\ transform_matrix = Identity
    /\ WarpAffine(image, transform_matrix, image.cols - 1, image.rows - 1)
         = <<image.cols - 1, image.rows - 1>>

\* C10: a frame leaves the loop exactly when its polled key is ESC, any
\* other frame stays in the loop; after ESC no further frame is rendered,
\* main destroys the windows and prints the exit confirmation, and a polled
\* ESC leads to the program being closed.
C10_FrameStep ==
    frames' # frames =>
        /\ (pc' = "teardown") <=> (key' = ESC)
        /\ key' # ESC => pc' = "loop"

C10_AfterEsc == pc \in {"teardown", "closed"} => frames' = frames

C10_ExitOnEsc ==
    /\ [][C10_FrameStep]_vars
    /\ [][C10_AfterEsc]_vars
    /\ [](pc = "closed" =>
             /\ key = ESC /\ ~window
             /\ stdout[Len(stdout)] = <<"Application closed.">>)
    /\ (key = ESC) ~> (pc = "closed")

C10_Witness ==
    pc = "closed" /\ key = ESC /\ frames >= 2 /\ ~window

====
